---- MODULE Spec2Model ----
(***************************************************************************)
(* Model of scrap_neurIPS_papers.py: the argument checks, the loop over    *)
(* the years, get_all_hashes, the per-paper loop of                        *)
(* scrap_paper_and_authors (skip check, retry loop, extraction request,    *)
(* record construction, append, per-paper save) and the final export.      *)
(* The network and the upstream site are the environment: every GET either *)
(* raises or returns a response drawn from a small set.  The file system   *)
(* (year directories and per-paper csv files) outlives a run, so a run     *)
(* starts on whatever earlier runs have left under the output directory.   *)
(***************************************************************************)
EXTENDS Integers, Sequences, FiniteSets, TLC

\* ---------------------------------------------------------------- bounds
MaxSpan == 1        \* end_year - start_year is at most this
MaxHashes == 2      \* links on one year's index page
MaxFails == 7       \* transport failures within the fetch of one paper

\* ------------------------------------------------------ program constants
FIRST_YEAR == 1987       \* lines 31, 34
LAST_LEGACY_YEAR == 2019 \* lines 101, 126
SLEEP_START == 1         \* line 107
SLEEP_CAP == 60          \* lines 115-116
HTTP_OK == 200           \* lines 63, 118, 129, 159
NOT_FOUND_TEXT == "Resource Not Found"   \* line 119

None == "<None>"         \* Python's None, apart from every page string

BASE_URL == "https://papers.neurips.cc/paper/"                     \* line 41
BASE_URL_20 == "https://proceedings.neurips.cc/paper_files/paper"  \* line 42

\* ------------------------------------------------------------ input sets
YearArgs == {1986, 1987, 2019, 2020}
Hashes == {"a", "b"}
Statuses == {200, 404}
\* what a paper-page response can carry: the sentinel text, the document of
\* the requested paper, or something that is neither
Bodies == {NOT_FOUND_TEXT, "doc", "junk"}
PaperResponses ==
    {r \in [status : Statuses, body : Bodies] : r.status # 200 => r.body = NOT_FOUND_TEXT}

SeqsUpTo(S, n) == UNION {[1..k -> S] : k \in 0..n}

\* The link targets an index page can carry, each as its sequence of
\* characters: "/p/h-A", "h-P-C" (no "/", two "-") and "p-q/h" (a "-" in an
\* earlier segment only), for h one of the paper hashes.
LinkTargets ==
    UNION {{<<"/", "p", "/", h, "-", "A">>,
            <<h, "-", "P", "-", "C">>,
            <<"p", "-", "q", "/", h>>} : h \in Hashes}

\* the hrefs of the <li> links of div.container-fluid, in page order
IndexPages == SeqsUpTo(LinkTargets, MaxHashes)

VARIABLES
    start_year, end_year, out_dir, skip_existing,   \* arguments (lines 47-50)
    pc,             \* where the script is; "..._wait": inside requests.get
    error,          \* the exception that ended the run, or None
    year,           \* loop variable of line 193
    hashes,         \* the parameter of scrap_paper_and_authors (lines 87, 198)
    idx,            \* position of paper_hash in hashes (line 96)
    response,       \* <<>> for None, <<r>> for a response (lines 106, 110)
    sleep_time,     \* line 107; SLEEP_START outside the loop of lines 108-122
    paper_url,      \* lines 102, 104, 127, 157; None before the first of them
    paper,          \* <<>> before extraction, <<record>> after (line 125)
    papers, paper_authors,                          \* lines 51-52
    dirs,           \* the year directories that exist under -dir
    files,          \* the per-paper csvs: [key |-> <<year, hash>>, rows |-> <<paper>>]
    \* what the run has done so far
    discovered,     \* years whose index page was requested
    discFailed,     \* years whose index request raised or was not 200
    fetched,        \* <<year, idx>> for which a paper page was requested
    non200,         \* idx of the papers of `year` whose page came back not 200
    sentinel,       \* a 200 "Resource Not Found" paper page was received
    existed,        \* <<year, idx>> whose csv existed at its turn (-dir, -skip-existing)
    mkdirs,         \* directories created
    wrote,          \* <<year, hash>> of the per-paper csvs written
    exported,       \* the aggregate files written
    reported,       \* "Couldn't save the files!" was printed (line 205)
    probed,         \* os.path.isdir or os.path.exists was called (lines 92, 98)
    listing,        \* the hrefs get_all_hashes read from the index page of `year`,
                    \* kept until scrap_paper_and_authors is entered
    \* what the retry loop of the current paper has done so far
    fails,          \* transport failures
    streak,         \* transport failures since the last answer
    slept,          \* duration of the last sleep (0: none yet)
    requeried       \* a request was issued after a non-200 answer

args == <<start_year, end_year, out_dir, skip_existing>>
locals == <<idx, response, sleep_time, paper, paper_url>>
accum == <<papers, paper_authors>>
disk == <<dirs, files>>
net == <<discovered, discFailed, fetched, non200, sentinel>>
out == <<mkdirs, wrote, exported, reported, probed, listing>>
loop == <<fails, streak, slept, requeried>>
vars == <<args, pc, error, year, hashes, locals, accum, disk, net, existed, out, loop>>

Pos == <<year, idx>>
paper_hash == hashes[idx]

\* ---------------------------------------------------------- pure helpers

\* the checks of lines 31-38 without the one of line 31
ArgsRejectedNoStartCheck(s, e) == e < FIRST_YEAR \/ s > e

\* lines 31-38: the three checks that raise ValueError
ArgsRejected(s, e) == s < FIRST_YEAR \/ e < FIRST_YEAR \/ s > e

\* str.split(sep): the pieces of s between the occurrences of sep
RECURSIVE Split(_, _)
Split(s, sep) ==
    IF s = <<>> THEN <<<<>>>>
    ELSE LET rest == Split(Tail(s), sep) IN
         IF Head(s) = sep THEN <<<<>>>> \o rest
         ELSE <<<<Head(s)>> \o Head(rest)>> \o Tail(rest)

\* the string of a sequence of characters
RECURSIVE Join(_)
Join(cs) == IF cs = <<>> THEN "" ELSE Head(cs) \o Join(Tail(cs))

\* line 69 with [0] of the split on "/" in place of [-1]
PaperHashOfFirstSegment(href) ==
    LET segs == Split(href, "/") IN Join(Head(Split(Head(segs), "-")))

\* line 69: paper_url.split("/")[-1].split("-")[0]
PaperHash(href) ==
    LET segs == Split(href, "/") IN Join(Head(Split(segs[Len(segs)], "-")))

\* lines 66-71: one hash per link, in page order
HashesOf(page) == [i \in DOMAIN page |-> PaperHash(page[i])]

\* get_all_hashes without the status test of line 63
GetAllHashesNoStatusTest(outcome) ==
    IF outcome.kind = "ConnectionError" THEN [kind |-> "None", list |-> <<>>]
    ELSE IF ~outcome.container THEN [kind |-> "raise", list |-> <<>>]
    ELSE [kind |-> "list", list |-> HashesOf(outcome.page)]

\* lines 61-76: what get_all_hashes does for an outcome of its GET.
\* kind "list": the list of line 71; "False": line 74; "None": the fall-through
\* after line 76; "raise": line 67 on a page without div.container-fluid.
GetAllHashesResult(outcome) ==
    IF outcome.kind = "ConnectionError" THEN [kind |-> "None", list |-> <<>>]
    ELSE IF outcome.status # HTTP_OK THEN [kind |-> "False", list |-> <<>>]
    ELSE IF ~outcome.container THEN [kind |-> "raise", list |-> <<>>]
    ELSE [kind |-> "list", list |-> HashesOf(outcome.page)]

\* line 197: the truth value of what get_all_hashes returned
Truthy(ret) == ret.kind = "list" /\ Len(ret.list) > 0

\* the skip test with the existence test of line 98 negated
SkipPaperUnlessExists(dirSet, skipSet, fileExists) == dirSet /\ skipSet /\ ~fileExists

\* lines 97-98: the paper is skipped
SkipPaper(dirSet, skipSet, fileExists) == dirSet /\ skipSet /\ fileExists

\* the test of lines 101, 126 with < in place of <=
IsLegacyBefore(y) == y < LAST_LEGACY_YEAR

\* lines 101, 126: the schema of a year
IsLegacy(y) == y <= LAST_LEGACY_YEAR

\* line 194
YearUrl(y) == BASE_URL \o ToString(y)

\* lines 101-104 and 126-127, 157: the address of the page of paper h
PaperUrl(y, h) ==
    IF IsLegacy(y) THEN YearUrl(y) \o "/file/" \o h \o "-Metadata.json"
    ELSE BASE_URL_20 \o "/" \o ToString(y) \o "/hash/" \o h \o "-Abstract.html"

\* lines 114-116
NextSleep(t) == IF t * 2 > SLEEP_CAP THEN SLEEP_CAP ELSE t * 2

\* the loop's test without the sentinel test of lines 119-121
LoopVerdictNoSentinel(resp) ==
    CASE resp = <<>> -> "AttributeError"
      [] resp[1].status = HTTP_OK -> "break"
      [] OTHER -> "again"

\* lines 118-122: what the loop does with `response` after an attempt
LoopVerdict(resp) ==
    CASE resp = <<>> -> "AttributeError"
      [] resp[1].status = HTTP_OK /\ resp[1].body = NOT_FOUND_TEXT -> "RuntimeError"
      [] resp[1].status = HTTP_OK -> "break"
      [] OTHER -> "again"

\* lines 136, 144-146 without the `if x else None`
OrNoneKeepsBlank(s) == s

\* `x if x else None`, lines 136, 144-146
OrNone(s) == IF s = "" THEN None ELSE s

\* The upstream site: the metadata document of a legacy paper.  Paper "a"
\* has an empty abstract and no author; paper "b" has an abstract and two
\* authors.
JsonDoc(y, h) ==
    [sourceid |-> "S" \o ToString(y) \o h,
     title |-> "T" \o ToString(y) \o h,
     abstract |-> IF h = "a" THEN "" ELSE "A" \o ToString(y) \o h,
     full_text |-> "F" \o ToString(y) \o h,
     authors |-> IF h = "a" THEN <<>>
                 ELSE <<[given_name |-> "G" \o h, family_name |-> "", institution |-> "I"],
                        [given_name |-> "", family_name |-> "F" \o h, institution |-> ""]>>]

\* The upstream site: the abstract page of a modern paper, as its meta tags
\* and the text of its div.col.  Page "a" has no citation_* tag at all.
HtmlPage(y, h) ==
    [metas |-> IF h = "a" THEN <<>>
               ELSE <<[name |-> "citation_title", content |-> "T" \o ToString(y) \o h],
                      [name |-> "citation_author", content |-> "N" \o h],
                      [name |-> "citation_pdf_url", content |-> "P" \o ToString(y) \o h]>>,
     col |-> "C" \o ToString(y) \o h]

\* lines 133-138
LegacyPaper(y, doc) ==
    [source_id |-> doc.sourceid,
     year |-> [str |-> TRUE, val |-> y],       \* year_url.split("/")[-1]: a string
     title |-> doc.title,
     abstract |-> OrNone(doc.abstract),
     full_text |-> doc.full_text,
     pdf_url |-> None]

\* lines 141-147 with the author's own id (absent from the document) in
\* place of doc['sourceid'] at line 143
LegacyAuthorsUnlinked(doc) ==
    [i \in DOMAIN doc.authors |->
        [source_id |-> None,
         first_name |-> OrNone(doc.authors[i].given_name),
         last_name |-> OrNone(doc.authors[i].family_name),
         institution |-> OrNone(doc.authors[i].institution)]]

\* lines 141-147
LegacyAuthors(doc) ==
    [i \in DOMAIN doc.authors |->
        [source_id |-> doc.sourceid,
         first_name |-> OrNone(doc.authors[i].given_name),
         last_name |-> OrNone(doc.authors[i].family_name),
         institution |-> OrNone(doc.authors[i].institution)]]

MetaContents(page, tag) ==
    SelectSeq(page.metas, LAMBDA m : m.name = tag)

\* lines 163-182: the keys title and pdf_url exist only if their tag does
ModernPaper(y, page) ==
    LET base == [source_id |-> None, year |-> [str |-> FALSE, val |-> y],
                 abstract |-> page.col, full_text |-> None]
        t == MetaContents(page, "citation_title")
        p == MetaContents(page, "citation_pdf_url")
        withT == IF t = <<>> THEN base
                 ELSE [k \in DOMAIN base \cup {"title"} |->
                        IF k = "title" THEN t[Len(t)].content ELSE base[k]]
    IN  IF p = <<>> THEN withT
        ELSE [k \in DOMAIN withT \cup {"pdf_url"} |->
                IF k = "pdf_url" THEN p[Len(p)].content ELSE withT[k]]

\* lines 173-175
ModernAuthors(page) ==
    LET a == MetaContents(page, "citation_author")
    IN  [i \in DOMAIN a |-> [name |-> a[i].content]]

\* ------------------------------------------------------------------ Init

\* The per-paper csv an earlier run wrote for paper h of year y (lines 187-189)
CsvOf(y, h) ==
    [key |-> <<y, h>>,
     rows |-> <<IF IsLegacy(y) THEN LegacyPaper(y, JsonDoc(y, h))
                ELSE ModernPaper(y, HtmlPage(y, h))>>]

\* What earlier runs with -dir can have left under the output directory for
\* the years s..e: some year directories (lines 92-94), each with the csvs
\* of some of its papers (line 189).  Without -dir there is no such directory.
LeftBehind(s, e, dir) ==
    IF ~dir THEN {[dirs |-> {}, files |-> {}]}
    ELSE {d \in [dirs : SUBSET (s..e),
                 files : SUBSET {CsvOf(y, h) : y \in s..e, h \in Hashes}] :
            \A f \in d.files : f.key[1] \in d.dirs}

Init ==
    /\ start_year \in YearArgs /\ end_year \in YearArgs
    /\ end_year - start_year <= MaxSpan
    /\ out_dir \in BOOLEAN /\ skip_existing \in BOOLEAN
    /\ \E d \in LeftBehind(start_year, end_year, out_dir) :
         dirs = d.dirs /\ files = d.files
    /\ pc = "validate" /\ error = None
    /\ year = start_year /\ hashes = <<>>
    /\ idx = 0 /\ response = <<>> /\ sleep_time = SLEEP_START /\ paper = <<>>
    /\ paper_url = None
    /\ papers = <<>> /\ paper_authors = <<>>
    /\ discovered = {} /\ discFailed = {} /\ fetched = {} /\ non200 = {}
    /\ sentinel = FALSE /\ existed = {}
    /\ mkdirs = {} /\ wrote = {} /\ exported = {}
    /\ reported = FALSE /\ probed = FALSE /\ listing = <<>>
    /\ fails = 0 /\ streak = 0 /\ slept = 0 /\ requeried = FALSE

\* --------------------------------------------------------------- actions

FileExists(y, h) == \E f \in files : f.key = <<y, h>>

Crash(exc) == pc' = "crashed" /\ error' = exc

LoopReset == fails' = 0 /\ streak' = 0 /\ slept' = 0 /\ requeried' = FALSE

\* lines 30-38
Validate ==
    /\ pc = "validate"
    /\ IF ArgsRejected(start_year, end_year)
         THEN pc' = "rejected" /\ error' = "ValueError"
         ELSE pc' = "discover" /\ error' = error
    /\ UNCHANGED <<args, year, hashes, locals, accum, disk, net, existed, out, loop>>

\* the `for year in range(...)` of line 193 steps on, or ends before line 200
AfterYear ==
    /\ year' = year + 1
    /\ pc' = IF year + 1 > end_year THEN "export" ELSE "discover"

\* scrap_paper_and_authors returns (the loop of line 96 ends, or the break
\* of line 150 or 186): its locals are gone
Return ==
    /\ AfterYear
    /\ hashes' = <<>> /\ non200' = {}
    /\ idx' = 0 /\ response' = <<>> /\ sleep_time' = SLEEP_START /\ paper' = <<>>
    /\ paper_url' = None

\* what the GET of line 62 can do: raise ConnectionError, or answer with a
\* status and a page that has the listing container or not
IndexOutcomes ==
    {[kind |-> "ConnectionError", status |-> 0, container |-> FALSE, page |-> <<>>]}
    \cup {[kind |-> "response", status |-> s, container |-> TRUE, page |-> p] :
             s \in Statuses, p \in IndexPages}
    \cup {[kind |-> "response", status |-> HTTP_OK, container |-> FALSE, page |-> <<>>]}

\* lines 194-198 with get_all_hashes (lines 55-76): the index page of `year`
\* is requested, and the year is scraped if the result is truthy
GetAllHashes ==
    /\ pc = "discover_wait"
    /\ \E outcome \in IndexOutcomes :
         LET ret == GetAllHashesResult(outcome) IN
         IF ret.kind = "raise"
           THEN /\ Crash("AttributeError")
                /\ UNCHANGED <<year, hashes, discFailed, listing>>
           ELSE /\ discFailed' = IF outcome.kind = "ConnectionError"
                                    \/ outcome.status # HTTP_OK
                                   THEN discFailed \cup {year} ELSE discFailed
                /\ IF Truthy(ret)
                     THEN /\ pc' = "scrap" /\ year' = year /\ hashes' = ret.list
                          /\ listing' = outcome.page
                     ELSE AfterYear /\ UNCHANGED <<hashes, listing>>
                /\ error' = error
    /\ UNCHANGED <<args, locals, accum, disk, discovered, fetched, non200, sentinel,
                   existed, mkdirs, wrote, exported, reported, probed, loop>>

\* lines 90-94: the year directory, then the first paper
MkYearDir ==
    /\ pc = "scrap"
    /\ IF out_dir /\ year \notin dirs
         THEN dirs' = dirs \cup {year} /\ mkdirs' = mkdirs \cup {year}
         ELSE UNCHANGED <<dirs, mkdirs>>
    /\ probed' = (probed \/ out_dir)
    /\ listing' = <<>>
    /\ idx' = 1
    /\ pc' = "for_hash"
    /\ UNCHANGED <<args, error, year, hashes, response, sleep_time, paper, paper_url,
                   accum, files, net, existed, wrote, exported, reported, loop>>

\* lines 96-107 with the skipped paper's csv read back into papers before
\* the continue of line 99
ForHashLoadsExisting ==
    /\ pc = "for_hash"
    /\ IF idx > Len(hashes)
         THEN /\ Return
              /\ UNCHANGED <<existed, probed, papers>>
         ELSE /\ existed' = IF out_dir /\ skip_existing /\ FileExists(year, paper_hash)
                              THEN existed \cup {Pos} ELSE existed
              /\ probed' = (probed \/ (out_dir /\ skip_existing))
              /\ IF SkipPaper(out_dir, skip_existing, FileExists(year, paper_hash))
                   THEN /\ idx' = idx + 1
                        /\ papers' = papers \o
                              (CHOOSE f \in files : f.key = <<year, paper_hash>>).rows
                        /\ UNCHANGED <<pc, response, sleep_time, paper_url>>
                   ELSE /\ paper_url' = PaperUrl(year, paper_hash)
                        /\ response' = <<>>
                        /\ sleep_time' = SLEEP_START
                        /\ pc' = "retry_get"
                        /\ idx' = idx
                        /\ papers' = papers
              /\ UNCHANGED <<year, paper>>
    /\ IF idx > Len(hashes) THEN TRUE ELSE UNCHANGED <<hashes, non200>>
    /\ UNCHANGED <<args, error, paper_authors, disk, discovered, discFailed, fetched,
                   sentinel, mkdirs, wrote, exported, reported, listing, loop>>

\* lines 96-107: the next paper_hash, the skip check, the start of its fetch
ForHash ==
    /\ pc = "for_hash"
    /\ IF idx > Len(hashes)
         THEN /\ Return
              /\ UNCHANGED <<existed, probed>>
         ELSE /\ existed' = IF out_dir /\ skip_existing /\ FileExists(year, paper_hash)
                              THEN existed \cup {Pos} ELSE existed
              /\ probed' = (probed \/ (out_dir /\ skip_existing))
              /\ IF SkipPaper(out_dir, skip_existing, FileExists(year, paper_hash))
                   THEN /\ idx' = idx + 1
                        /\ UNCHANGED <<pc, response, sleep_time, paper_url>>
                   ELSE /\ paper_url' = PaperUrl(year, paper_hash)
                        /\ response' = <<>>
                        /\ sleep_time' = SLEEP_START
                        /\ pc' = "retry_get"
                        /\ idx' = idx
              /\ UNCHANGED <<year, paper>>
    /\ IF idx > Len(hashes) THEN TRUE ELSE UNCHANGED <<hashes, non200>>
    /\ UNCHANGED <<args, error, accum, disk, discovered, discFailed, fetched, sentinel,
                   mkdirs, wrote, exported, reported, listing, loop>>

\* lines 62, 110, 128, 158: requests.get sends the request and waits
SendRequest ==
    /\ pc \in {"discover", "retry_get", "extract_get"}
    /\ pc' = CASE pc = "discover" -> "discover_wait"
               [] pc = "retry_get" -> "retry_wait"
               [] pc = "extract_get" -> "extract_wait"
    /\ IF pc = "discover"
         THEN discovered' = discovered \cup {year} /\ UNCHANGED <<fetched, requeried>>
         ELSE /\ fetched' = fetched \cup {Pos}
              /\ requeried' = (requeried \/ (/\ pc = "retry_get"
                                            /\ response # <<>>
                                            /\ response[1].status # HTTP_OK))
              /\ UNCHANGED discovered
    /\ paper_url' = IF pc = "extract_get" THEN PaperUrl(year, paper_hash) ELSE paper_url
    /\ UNCHANGED <<args, error, year, hashes, idx, response, sleep_time, paper, accum,
                   disk, discFailed, non200, sentinel, existed, out, fails, streak, slept>>

\* lines 118-122 on the value `response` has after the attempt
AfterAttempt(resp) ==
    LET v == LoopVerdict(resp) IN
    /\ pc' = CASE v = "break" -> "extract_get"
               [] v = "again" -> "retry_get"
               [] OTHER -> "crashed"
    /\ error' = IF v \in {"break", "again"} THEN error ELSE v

\* lines 108-122, the GET of line 110 raises: sleep, double, cap, and then
\* line 118 reads `response` as the earlier attempts left it
RetryGetRaises ==
    /\ pc = "retry_wait"
    /\ fails < MaxFails
    /\ sleep_time' = NextSleep(sleep_time)
    /\ AfterAttempt(response)
    /\ fails' = fails + 1 /\ streak' = streak + 1 /\ slept' = sleep_time
    /\ UNCHANGED <<args, year, hashes, idx, response, paper, paper_url, accum, disk, net,
                   existed, out, requeried>>

\* lines 108-122, the GET of line 110 answers
RetryGetResponds ==
    /\ pc = "retry_wait"
    /\ \E r \in PaperResponses :
         /\ response' = <<r>>
         /\ non200' = IF r.status # HTTP_OK THEN non200 \cup {idx} ELSE non200
         /\ sentinel' = (sentinel \/ (r.status = HTTP_OK /\ r.body = NOT_FOUND_TEXT))
         /\ AfterAttempt(<<r>>)
         /\ IF LoopVerdict(<<r>>) = "break"
              THEN LoopReset /\ sleep_time' = SLEEP_START
              ELSE streak' = 0 /\ UNCHANGED <<fails, slept, requeried, sleep_time>>
    /\ UNCHANGED <<args, year, hashes, idx, paper, paper_url, accum, disk, discovered,
                   discFailed, fetched, existed, out>>

\* lines 125-186, the GET of line 128 or 158 raises: nothing catches it
ExtractGetRaises ==
    /\ pc = "extract_wait"
    /\ Crash("ConnectionError")
    /\ UNCHANGED <<args, year, hashes, locals, accum, disk, net, existed, out, loop>>

\* lines 125-186, the GET of line 128 or 158 answers: a non-200 status leaves
\* the loop over the hashes (lines 150, 186); a 200 body that is not the
\* paper's document makes response.json() (line 130) or .text of a missing
\* div (line 181) raise; otherwise the record and the authors are built
ExtractGetResponds ==
    /\ pc = "extract_wait"
    /\ \E r \in PaperResponses :
         /\ sentinel' = (sentinel \/ (r.status = HTTP_OK /\ r.body = NOT_FOUND_TEXT))
         /\ IF r.status # HTTP_OK
              THEN /\ Return
                   /\ UNCHANGED <<error, paper_authors>>
              ELSE IF r.body # "doc"
              THEN /\ Crash(IF IsLegacy(year) THEN "JSONDecodeError" ELSE "AttributeError")
                   /\ response' = <<r>>
                   /\ UNCHANGED <<year, hashes, idx, sleep_time, paper, paper_url,
                                  paper_authors, non200>>
              ELSE /\ pc' = "append"
                   /\ response' = <<r>>
                   /\ paper' = IF IsLegacy(year)
                                 THEN <<LegacyPaper(year, JsonDoc(year, paper_hash))>>
                                 ELSE <<ModernPaper(year, HtmlPage(year, paper_hash))>>
                   /\ paper_authors' = paper_authors \o
                         (IF IsLegacy(year)
                            THEN LegacyAuthors(JsonDoc(year, paper_hash))
                            ELSE ModernAuthors(HtmlPage(year, paper_hash)))
                   /\ UNCHANGED <<error, year, hashes, idx, sleep_time, paper_url, non200>>
    /\ UNCHANGED <<args, papers, disk, discovered, discFailed, fetched, existed, out, loop>>

\* lines 187-189 without the test of line 188
AppendPaperThenSave ==
    /\ pc = "append"
    /\ papers' = Append(papers, paper[1])
    /\ pc' = "save" /\ idx' = idx
    /\ UNCHANGED <<args, error, year, hashes, response, sleep_time, paper, paper_url,
                   paper_authors, disk, net, existed, out, loop>>

\* line 187 with papers.insert(0, paper) in place of papers.append(paper)
AppendPaperInFront ==
    /\ pc = "append"
    /\ papers' = <<paper[1]>> \o papers
    /\ IF out_dir THEN pc' = "save" /\ idx' = idx
                  ELSE pc' = "for_hash" /\ idx' = idx + 1
    /\ UNCHANGED <<args, error, year, hashes, response, sleep_time, paper, paper_url,
                   paper_authors, disk, net, existed, out, loop>>

\* line 187
AppendPaper ==
    /\ pc = "append"
    /\ papers' = Append(papers, paper[1])
    /\ IF out_dir THEN pc' = "save" /\ idx' = idx
                  ELSE pc' = "for_hash" /\ idx' = idx + 1
    /\ UNCHANGED <<args, error, year, hashes, response, sleep_time, paper, paper_url,
                   paper_authors, disk, net, existed, out, loop>>

\* lines 188-189 without the call of save_file
SaveFileNotCalled ==
    /\ pc = "save"
    /\ pc' = "for_hash" /\ idx' = idx + 1
    /\ UNCHANGED <<args, error, year, hashes, response, sleep_time, paper, paper_url,
                   accum, disk, net, existed, out, loop>>

\* lines 188-189 with save_file (lines 78-84): the csv of this paper holds
\* the one record
SaveFile ==
    /\ pc = "save"
    /\ files' = {f \in files : f.key # <<year, paper_hash>>}
                  \cup {[key |-> <<year, paper_hash>>, rows |-> <<paper[1]>>]}
    /\ wrote' = wrote \cup {<<year, paper_hash>>}
    /\ pc' = "for_hash" /\ idx' = idx + 1
    /\ UNCHANGED <<args, error, year, hashes, response, sleep_time, paper, paper_url,
                   accum, dirs, net, existed, mkdirs, exported, reported, probed, listing,
                   loop>>

\* lines 200-205 with `or` in place of `and` in the test of line 201
ExportPapersIfEither ==
    /\ pc = "export"
    /\ IF papers # <<>> \/ paper_authors # <<>>
         THEN /\ exported' = exported \cup {"papers.csv"}
              /\ pc' = "export_authors"
              /\ reported' = reported
         ELSE /\ exported' = exported
              /\ pc' = "done"
              /\ reported' = TRUE
    /\ UNCHANGED <<args, error, year, hashes, locals, accum, disk, net, existed,
                   mkdirs, wrote, probed, listing, loop>>

\* lines 200-202, 204-205
ExportPapers ==
    /\ pc = "export"
    /\ IF papers # <<>> /\ paper_authors # <<>>
         THEN /\ exported' = exported \cup {"papers.csv"}
              /\ pc' = "export_authors"
              /\ reported' = reported
         ELSE /\ exported' = exported
              /\ pc' = "done"
              /\ reported' = TRUE
    /\ UNCHANGED <<args, error, year, hashes, locals, accum, disk, net, existed,
                   mkdirs, wrote, probed, listing, loop>>

\* line 203
ExportAuthors ==
    /\ pc = "export_authors"
    /\ exported' = exported \cup {"paper_authors.csv"}
    /\ pc' = "done"
    /\ UNCHANGED <<args, error, year, hashes, locals, accum, disk, net, existed,
                   mkdirs, wrote, reported, probed, listing, loop>>

Ended == pc \in {"done", "crashed", "rejected"}

Step ==
    \/ Validate
    \/ SendRequest
    \/ GetAllHashes
    \/ MkYearDir
    \/ ForHash
    \/ RetryGetRaises
    \/ RetryGetResponds
    \/ ExtractGetRaises
    \/ ExtractGetResponds
    \/ AppendPaper
    \/ SaveFile
    \/ ExportPapers
    \/ ExportAuthors

Next == Step

Spec == Init /\ [][Next]_vars

\* The script is one sequential process: while it has a step to take it takes
\* one, and a GET that has been sent ends (it raises or it answers).
LiveSpec == Init /\ [][Next]_vars /\ WF_vars(Next)

\* ---------------------------------------------------------------- claims

Min(a, b) == IF a < b THEN a ELSE b

\* the records of `papers` that no per-paper csv holds
NotOnDisk == {i \in DOMAIN papers : ~\E f \in files : f.rows = <<papers[i]>>}

\* C1: in the retry loop a transport failure is never surfaced: after a GET
\* of the loop has raised, the fetcher has slept and is about to issue the
\* request again; the run neither aborts nor leaves the identifier.
C1_FailureIsRetried ==
    [][(pc = "retry_wait" /\ fails' = fails + 1) => pc' = "retry_get"]_vars

\* C2: a paper-page answer whose status is not 200 ends the fetch: the
\* fetcher never requests the same URL again after such an answer.
C2_NoRequestAfterNon200 == ~requeried

\* C3: once the page of an identifier of the current year has come back
\* with a non-200 status, no later identifier of that year is fetched.
C3_YearAbandonedAfterNon200 ==
    \A i \in non200 : \A p \in fetched : p[1] = year => p[2] <= i

\* C4: a 200 paper-page answer whose body is "Resource Not Found" halts the
\* whole run, whatever retries preceded it: the run has ended with an
\* exception, it takes no further step (so it issues no further request),
\* and neither papers.csv nor paper_authors.csv has been written.
C4_SentinelHaltsRun ==
    sentinel => pc = "crashed" /\ error # None /\ exported = {} /\ ~ENABLED Next

\* C4 witness: the sentinel arrived in the retry loop after two failed
\* attempts and one non-200 answer, with a record already collected.
C4_Witness ==
    sentinel /\ error = "RuntimeError" /\ fails >= 2 /\ requeried /\ papers # <<>>

\* C5: with -dir and -skip-existing, an identifier whose csv exists when its
\* turn comes is never requested.
C5_ExistingNeverFetched == \A p \in existed : p \notin fetched

\* C5 witness: a finished run that skipped one identifier and fetched another
C5_Witness == pc = "done" /\ existed # {} /\ fetched # {}

\* C6: the sleep after the Nth consecutive transport failure of a fetch
\* lasts min(60, 2^(N-1)).
C6_NthSleep == streak >= 1 => slept = Min(60, 2 ^ (streak - 1))

\* C7: with an output directory, every record appended to papers is in its
\* per-paper csv before the next identifier is looked at; while the script
\* is between the append and the save, only the record just appended is not
\* on disk.
C7_WriteThrough ==
    out_dir => /\ pc # "save" => NotOnDisk = {}
               /\ pc = "save" => NotOnDisk \subseteq {Len(papers)}

\* C7 witness: the second record of a run is appended and not yet saved
C7_Witness == out_dir /\ pc = "save" /\ NotOnDisk = {2}

\* C8: when every request gets an outcome and transport failures are
\* finitely many, the run ends: it reaches the end of the export or an
\* exception; it does not stay on one identifier for ever.
C8_RunEnds == <>Ended

C10_RejectedBeforeIO ==
    (start_year < 1987 \/ end_year < 1987 \/ start_year > end_year) =>
        /\ pc \in {"validate", "rejected"}
        /\ discovered = {} /\ fetched = {}
        /\ mkdirs = {} /\ wrote = {} /\ exported = {}

\* C10 witness: a run rejected for its first year alone
C10_Witness == pc = "rejected" /\ start_year < 1987 /\ end_year >= 1987

Aggregates == {"papers.csv", "paper_authors.csv"}

\* C11: a run that reaches its end has written papers.csv and
\* paper_authors.csv if it collected at least one paper and at least one
\* author, and otherwise has written neither and has printed the
\* nothing-saved message.  Apart from the moment between the two writes
\* (papers.csv first) the two files exist together or not at all; an
\* aggregate file is written only after the loop over the years has passed
\* the last year, and the message is printed only by a run that wrote none.
C11_ExportBothOrNeither ==
    /\ pc = "done" =>
          IF papers # <<>> /\ paper_authors # <<>>
            THEN exported = Aggregates /\ ~reported
            ELSE exported = {} /\ reported
    /\ pc # "export_authors" => exported \in {{}, Aggregates}
    /\ pc = "export_authors" => exported = {"papers.csv"}
    /\ exported # {} => year > end_year /\ pc \in {"export_authors", "done"}
    /\ reported => pc = "done" /\ exported = {}

\* C11 witness: a finished run that collected two papers and an author and
\* wrote both files
C11_Witness ==
    pc = "done" /\ exported = Aggregates /\ Len(papers) >= 2 /\ paper_authors # <<>>

\* a record of the legacy schema, of the modern schema
IsLegacyRecord(p) == p.year.str /\ p.source_id # None /\ p.full_text # None
IsModernRecord(p) == ~p.year.str /\ p.source_id = None /\ p.full_text = None

\* C12: the schema follows the year, with the boundary between 2019 and
\* 2020: while a request for a paper page is out (in the retry loop or for
\* the extraction), the address requested is the legacy metadata address of
\* the identifier if the year is at most 2019 and its modern abstract-page
\* address otherwise; the record built from the answer, and every record
\* collected, is a legacy record if its year is at most 2019 and a modern
\* record otherwise.
C12_SchemaByYear ==
    /\ pc \in {"retry_wait", "extract_wait"} =>
          paper_url = IF year <= 2019
                        THEN "https://papers.neurips.cc/paper/" \o ToString(year)
                               \o "/file/" \o hashes[idx] \o "-Metadata.json"
                        ELSE "https://proceedings.neurips.cc/paper_files/paper/"
                               \o ToString(year) \o "/hash/" \o hashes[idx]
                               \o "-Abstract.html"
    /\ pc \in {"append", "save"} =>
          IF year <= 2019 THEN IsLegacyRecord(paper[1]) ELSE IsModernRecord(paper[1])
    /\ \A i \in DOMAIN papers :
          /\ papers[i].year.val <= 2019 => IsLegacyRecord(papers[i])
          /\ papers[i].year.val >= 2020 => IsModernRecord(papers[i])

\* C12 witness: a run over 2019 and 2020 has collected a legacy record of
\* 2019 and is waiting for the abstract page of a paper of 2020
C12_Witness ==
    /\ pc = "extract_wait" /\ year = 2020
    /\ \E i \in DOMAIN papers : papers[i].year.val = 2019

\* C13: without -dir the persistence does nothing, whatever -skip-existing
\* is: no year directory and no per-paper csv exists or is created, the
\* file system is never asked about one, no identifier is taken for
\* existing, and every identifier of the current year whose turn has passed
\* has been requested.
C13_NoDirNoPersistence ==
    ~out_dir =>
        /\ mkdirs = {} /\ wrote = {} /\ dirs = {} /\ files = {}
        /\ ~probed
        /\ existed = {}
        /\ \A i \in 1..Len(hashes) : i < idx => <<year, i>> \in fetched

\* C13 witness: a run with -skip-existing and without -dir has finished the
\* two identifiers of a year
C13_Witness ==
    /\ ~out_dir /\ skip_existing
    /\ pc = "for_hash" /\ Len(hashes) = 2 /\ idx = 3 /\ Len(papers) = 2

\* C14: every request for a paper page is under the fetcher's handling: a
\* transport failure of such a request never ends the run with the
\* transport error (it is slept on and retried), and a 200 answer whose
\* body is "Resource Not Found" ends the run.
C14_EveryPaperGetUnderFetcher ==
    /\ ~(pc = "crashed" /\ error = "ConnectionError")
    /\ sentinel => pc = "crashed"

IsPrefix(s, t) == Len(s) <= Len(t) /\ SubSeq(t, 1, Len(s)) = s

\* the records of `papers` that belong to the year being scraped
OfThisYear == SelectSeq(papers, LAMBDA p : p.year.val = year)

\* the records of `papers` are in ascending order of year, and those of the
\* year being scraped follow the order of the identifiers in `hashes`: they
\* are the records of identifiers at increasing positions up to the current
\* one
InDiscoveryOrder ==
    LET cur == OfThisYear
        site == [k \in DOMAIN hashes |-> CsvOf(year, hashes[k]).rows[1]]
    IN  /\ \A i \in 1..(Len(papers) - 1) : papers[i].year.val <= papers[i + 1].year.val
        /\ \E f \in [DOMAIN cur -> DOMAIN hashes] :
              /\ \A k \in DOMAIN f : f[k] <= idx /\ cur[k] = site[f[k]]
              /\ \A k \in 1..(Len(cur) - 1) : f[k] < f[k + 1]

\* C15: papers and paper_authors only grow at their end: in every step what
\* they held stays, unchanged, a prefix of what they hold; and the records
\* of papers are in discovery order: by year ascending and, within the
\* year, in the order of its identifiers on the index page (looked at after
\* every step that changes what the order is about).
C15_AppendOnlyInOrder ==
    [][/\ IsPrefix(papers, papers')
       /\ IsPrefix(paper_authors, paper_authors')
       /\ <<papers, year, hashes, idx>>' # <<papers, year, hashes, idx>>
             => InDiscoveryOrder']_vars

\* C15 witness: the two different papers of a year were collected, "b"
\* before "a" as on the index page, after a paper of the year before
C15_Witness ==
    /\ hashes = <<"b", "a">> /\ pc = "for_hash" /\ idx = 3
    /\ Len(papers) = 3 /\ papers[1].year.val < year
    /\ papers[2] = CsvOf(year, "b").rows[1] /\ papers[3] = CsvOf(year, "a").rows[1]
    /\ paper_authors # <<>>

\* the contents of the meta tags named tag on a page
ContentsOf(page, tag) ==
    {page.metas[k].content : k \in {n \in DOMAIN page.metas : page.metas[n].name = tag}}

\* C16: every collected record has the shape of the schema of its year and
\* holds only what the page of some paper of that year provides.  A legacy
\* record (year at most 2019) has the document's source id, title and full
\* text, no pdf_url, and the document's abstract, or no abstract, never
\* the empty string, when the document's abstract is empty.  A modern record
\* (year from 2020) has no source_id and no full_text, the text of the
\* page's div.col as abstract, and a title or pdf_url exactly when the page
\* has the meta tag, with that tag's content.
C16_RecordShapes ==
    \A i \in DOMAIN papers :
        LET p == papers[i]
            y == p.year.val
        IN  IF y <= 2019
              THEN \E h \in Hashes :
                     LET doc == JsonDoc(y, h) IN
                     /\ p.source_id = doc.sourceid
                     /\ p.title = doc.title
                     /\ p.full_text = doc.full_text
                     /\ p.pdf_url = None
                     /\ p.abstract # ""
                     /\ p.abstract = IF doc.abstract = "" THEN None ELSE doc.abstract
              ELSE \E h \in Hashes :
                     LET page == HtmlPage(y, h) IN
                     /\ p.source_id = None
                     /\ p.full_text = None
                     /\ p.abstract = page.col
                     /\ IF ContentsOf(page, "citation_title") = {}
                          THEN "title" \notin DOMAIN p
                          ELSE "title" \in DOMAIN p
                               /\ p.title \in ContentsOf(page, "citation_title")
                     /\ IF ContentsOf(page, "citation_pdf_url") = {}
                          THEN "pdf_url" \notin DOMAIN p
                          ELSE "pdf_url" \in DOMAIN p
                               /\ p.pdf_url \in ContentsOf(page, "citation_pdf_url")

\* C16 witness: a legacy record of a document with an empty abstract and a
\* modern record of a page without meta tags have been collected
C16_Witness ==
    \E i, j \in DOMAIN papers :
        /\ papers[i].year.val = 2019 /\ papers[i].abstract = None
        /\ papers[j].year.val = 2020 /\ "title" \notin DOMAIN papers[j]

\* the positions of the legacy author records in paper_authors
LegacyAuthorRecords ==
    {j \in DOMAIN paper_authors : "source_id" \in DOMAIN paper_authors[j]}

\* C17: whenever the script is not between the appends of one identifier
\* (authors at line 147, paper at line 187), every legacy author record has
\* the source id of a legacy record of papers, and a legacy document has
\* given one author record with its source id per author entry, each time
\* it was collected.
C17_LegacyAuthorsLinked ==
    pc # "append" =>
        /\ \A j \in LegacyAuthorRecords :
              \E i \in DOMAIN papers :
                  /\ papers[i].year.val <= 2019
                  /\ papers[i].source_id = paper_authors[j].source_id
        /\ \A y \in start_year..end_year : \A h \in Hashes :
              y <= 2019 =>
                LET doc == JsonDoc(y, h) IN
                Cardinality({j \in LegacyAuthorRecords :
                                paper_authors[j].source_id = doc.sourceid})
                  = Len(doc.authors)
                      * Cardinality({i \in DOMAIN papers :
                                       papers[i].source_id = doc.sourceid})

\* C17 witness: a finished run collected a legacy paper with two authors
\* and a legacy paper without one
C17_Witness ==
    /\ pc = "done" /\ end_year <= 2019
    /\ Len(papers) = 2 /\ Cardinality(LegacyAuthorRecords) = 2
    /\ paper_authors[1].source_id = paper_authors[2].source_id

\* C18: an identifier whose page was answered with a status other than 200
\* leaves no trace: no record of it is built, appended or saved (the script
\* is never at the appends or at the save of such an identifier), and every
\* per-paper csv holds the fully extracted record of its paper.
C18_Non200LeavesNoTrace ==
    /\ pc \in {"append", "save"} => idx \notin non200
    /\ \A f \in files : f.rows = CsvOf(f.key[1], f.key[2]).rows

\* C19: an identifier skipped by -skip-existing contributes nothing: the
\* step that finds its csv (with -dir and -skip-existing) leaves papers,
\* paper_authors and the files as they are and goes on to the next
\* identifier; the records collected for a year are never more than the
\* identifiers of that year requested in this run; and a run that ends
\* without having requested any paper page writes no aggregate file.
C19_SkippedContributesNothing ==
    [][/\ (/\ pc = "for_hash" /\ idx <= Len(hashes)
           /\ out_dir /\ skip_existing
           /\ \E f \in files : f.key = <<year, hashes[idx]>>)
          => /\ UNCHANGED <<papers, paper_authors, files>>
             /\ pc' = "for_hash" /\ idx' = idx + 1
       /\ \A y \in start_year..end_year :
             Cardinality({i \in DOMAIN papers' : papers'[i].year.val = y})
               <= Cardinality({p \in fetched' : p[1] = y})
       /\ (pc' = "done" /\ fetched' = {}) => exported' = {}]_vars

\* C19 witness: a resumed run skipped one identifier, fetched the other and
\* exported the one record it collected
C19_Witness ==
    /\ pc = "done" /\ Cardinality(existed) = 1 /\ Cardinality(fetched) = 1
    /\ Len(papers) = 1 /\ exported = Aggregates

\* the characters of a link target from after its last "/" (from its start
\* if it has none) up to before the first "-" that follows (to its end if
\* none follows)
IdentifierOf(href) ==
    LET slashes == {k \in DOMAIN href : href[k] = "/"}
        from == IF slashes = {} THEN 1
                ELSE 1 + CHOOSE k \in slashes : \A m \in slashes : m <= k
        dashes == {k \in DOMAIN href : href[k] = "-" /\ k >= from}
        to == IF dashes = {} THEN Len(href)
              ELSE (CHOOSE k \in dashes : \A m \in dashes : k <= m) - 1
    IN  SubSeq(href, from, to)

\* C20: what get_all_hashes returns for a 200 index page is, link by link
\* in page order, the final path segment of the link target cut before its
\* first "-": as many identifiers as links, duplicates kept; and
\* "x/abc-P.pdf" gives "abc".
C20_HashesOfPage ==
    /\ pc = "scrap" =>
          /\ Len(hashes) = Len(listing)
          /\ \A i \in DOMAIN listing : hashes[i] = Join(IdentifierOf(listing[i]))
    /\ PaperHash(<<"x", "/", "a", "b", "c", "-", "P", ".", "p", "d", "f">>) = "abc"

\* C20 witness: an index page with two different links to the same paper
\* has given the same identifier twice
C20_Witness ==
    /\ pc = "scrap" /\ Len(listing) = 2 /\ listing[1] # listing[2]
    /\ hashes = <<"b", "b">>

====
